---- MODULE Spec2Model ----
(***************************************************************************)
(* A model of the "tools" layer of better-control: the Bluetooth manager   *)
(* (src/tools/bluetooth.py), the Wi-Fi helpers (src/tools/wifi.py), the    *)
(* network speed meter (src/utils/network.py) and the pactl parser         *)
(* (src/tools/volume.py).                                                  *)
(*                                                                         *)
(* Each subsystem has its own specification over its own variables; the    *)
(* variables of the other subsystems stay at their initial values.         *)
(*   Spec          Bluetooth manager, worker threads and the GLib loop     *)
(*   SpecWifi      connect_network and the temporary-profile cleanup       *)
(*   SpecQr        generate_wifi_qrcode and /tmp/better-control            *)
(*   SpecScan      get_wifi_networks on nmcli's terse output               *)
(*   SpecSpeed     utils.network.get_network_speed                         *)
(*   SpecApps      get_applications on pactl's sink-input listing          *)
(*                                                                         *)
(* External processes (nmcli, pactl, notify-send, busctl), D-Bus and the   *)
(* file system are the environment: every outcome the code distinguishes   *)
(* (exit status 0, non-zero exit status, an exception) is chosen with \E.  *)
(***************************************************************************)
EXTENDS Integers, Sequences, FiniteSets, TLC

VARIABLES
  \* ---- bluetooth.py
  _manager,      \* the module global _manager: None or an instance id
  instances,     \* instances[i]: TRUE iff instance i found an adapter
  uses,          \* the instances the module-level functions have used
  lastOp,        \* the last synchronous module-level call and what it did
  nOps,          \* number of module-level calls so far
  calls,         \* calls[c]: the worker thread of asynchronous call c
  idleQueue,     \* GLib idle sources not yet dispatched, oldest first
  invoked,       \* invoked[c]: the invocations of call c's callback so far
  \* ---- wifi.py: connect_network
  saved,         \* NetworkManager's saved connection profiles: [id, name]
  nextId,        \* identity of the next profile NetworkManager creates
  cleanups,      \* connection names the started delete_later threads will delete
  tempCreated,   \* ids of the profiles created by calls with remember=False
  lastConnect,   \* the last connect_network call: arguments, commands, result
  nConnects,     \* number of connect_network calls so far
  \* ---- wifi.py: generate_wifi_qrcode
  files,         \* files[path]: the text the QR image at path encodes, or NoFile
  lastQr,        \* the last generate_wifi_qrcode call: arguments and returned path
  \* ---- wifi.py: get_wifi_networks
  lastScan,      \* the get_wifi_networks call: what nmcli knew, what was returned
  \* ---- utils/network.py: get_network_speed
  prev,          \* the function attributes prev_rx_bytes / prev_tx_bytes
  recorded,      \* the counters the interface showed at the last successful call
  lastSpeed,     \* the last get_network_speed call: what it read and returned
  nPolls,        \* number of get_network_speed calls so far
  \* ---- volume.py: get_applications
  lastApps,      \* the get_applications call: pactl's text and what was returned
  \* ---- ui/main_window.py: BetterControl
  tabs,          \* self.tabs, in insertion order: [name, widget]
  tab_pages,     \* self.tab_pages: tab name -> page number
  notebook,      \* the notebook's pages, by the tab whose widget each holds
  current_page,  \* the tab whose widget is the notebook's current page
  settings,      \* self.settings: tab_order and visibility
  savedSettings, \* what save_settings last wrote
  started,       \* create_lazy_tabs has run
  lastWin,       \* the last window operation and what it was given
  nWinOps,       \* number of signals handled so far
  \* ---- ui/tabs/display_tab.py: DisplayTab
  session,              \* self.session, "none" before __init__
  current_display,      \* self.current_display
  previous_orientation, \* self.previous_orientation
  orientation,          \* the orientation the display really has
  lastRot               \* the last on_rotation_clicked call and what it did

btVars == <<_manager, instances, uses, lastOp, nOps, calls, idleQueue, invoked>>

wifiVars == <<saved, nextId, cleanups, tempCreated, lastConnect, nConnects>>

qrVars == <<files, lastQr>>

scanVars == <<lastScan>>

speedVars == <<prev, recorded, lastSpeed, nPolls>>

appsVars == <<lastApps>>

winVars == <<tabs, tab_pages, notebook, current_page, settings, savedSettings,
             started, lastWin, nWinOps>>

rotVars == <<session, current_display, previous_orientation, orientation,
             lastRot>>

vars == <<btVars, wifiVars, qrVars, scanVars, speedVars, appsVars, winVars,
          rotVars>>

notBt == <<wifiVars, qrVars, scanVars, speedVars, appsVars, winVars,
    rotVars>>

notWifi == <<btVars, qrVars, scanVars, speedVars, appsVars, winVars,
    rotVars>>

notQr == <<btVars, wifiVars, scanVars, speedVars, appsVars, winVars,
    rotVars>>

notScan == <<btVars, wifiVars, qrVars, speedVars, appsVars, winVars,
    rotVars>>

notSpeed == <<btVars, wifiVars, qrVars, scanVars, appsVars, winVars,
    rotVars>>

notApps == <<btVars, wifiVars, qrVars, scanVars, speedVars, winVars,
    rotVars>>

notWin == <<btVars, wifiVars, qrVars, scanVars, speedVars, appsVars, rotVars>>

notRot == <<btVars, wifiVars, qrVars, scanVars, speedVars, appsVars, winVars>>

----------------------------------------------------------------------------
(* Bounds *)

MaxCalls == 2      \* calls of module-level Bluetooth functions per run
MaxConnects == 2   \* connect_network calls per run
MaxNets == 2       \* networks in one nmcli scan listing
MaxPolls == 3      \* get_network_speed calls per run
MaxCounter == 2    \* byte counters range over 0..MaxCounter steps
MaxLines == 3      \* lines in pactl's sink-input listing
MaxWinOps == 3     \* signals the main window handles after start-up

----------------------------------------------------------------------------
(* Common *)

None == 0

Outcome == {"ok", "raise"}

(* Text is a sequence of one-character strings, so that the code's string    *)
(* operations (concatenation, split, strip, lower, substring tests) are      *)
(* computed rather than assumed.                                             *)

RECURSIVE Concat(_)
Concat(ss) == IF ss = <<>> THEN <<>> ELSE Head(ss) \o Concat(Tail(ss))

\* sub in s
Contains(sub, s) ==
  \E i \in 0..(Len(s) - Len(sub)) :
    \A j \in 1..Len(sub) : s[i + j] = sub[j]

\* s.startswith(p)
StartsWith(p, s) == Len(p) <= Len(s) /\ \A j \in 1..Len(p) : s[j] = p[j]

\* s.split(sep) for a one-character separator
Split(s, sep) ==
  LET seps == {i \in 1..Len(s) : s[i] = sep}
      n == Cardinality(seps)
      At(k) == IF k = 0 THEN 0
               ELSE IF k = n + 1 THEN Len(s) + 1
               ELSE CHOOSE i \in seps : Cardinality({j \in seps : j < i}) = k - 1
  IN  [k \in 1..(n + 1) |-> SubSeq(s, At(k - 1) + 1, At(k) - 1)]

NL == "\n"

Whitespace == {" ", "\t", NL}

\* s.strip()
RECURSIVE LStrip(_)
LStrip(s) ==
  IF s # <<>> /\ Head(s) \in Whitespace THEN LStrip(Tail(s)) ELSE s

RECURSIVE RStrip(_)
RStrip(s) ==
  IF s # <<>> /\ s[Len(s)] \in Whitespace
    THEN RStrip(SubSeq(s, 1, Len(s) - 1)) ELSE s

Strip(s) == RStrip(LStrip(s))

\* str.lower(), on the letters the inputs use
LowerChar(c) ==
  CASE c = "A" -> "a" [] c = "B" -> "b" [] c = "E" -> "e" [] c = "F" -> "f"
    [] c = "N" -> "n" [] c = "O" -> "o" [] c = "P" -> "p" [] c = "W" -> "w"
    [] OTHER -> c

Lower(s) == [i \in 1..Len(s) |-> LowerChar(s[i])]

----------------------------------------------------------------------------
(* bluetooth.py: BluetoothManager *)

\* __init__: dbus.SystemBus() is outside the try and may raise; a failure of
\* find_adapter or of get_object is caught and leaves adapter = None.
BluetoothManager_init(env) ==
  IF env.bus = "raise"
    THEN [raised |-> TRUE, adapter |-> FALSE]
    ELSE [raised |-> FALSE, adapter |-> (env.adapter = "found")]

InitEnv == [bus : Outcome, adapter : {"found", "none"}]

\* __init__ runs only when the global is None; otherwise its environment is
\* not consulted.
InitEnvFor(mgr) ==
  IF mgr = None THEN InitEnv ELSE {[bus |-> "ok", adapter |-> "found"]}

\* A construction on every call: the module global is never consulted.
get_bluetooth_manager_always_new(mgr, insts, env) ==
  LET r == BluetoothManager_init(env) IN
  IF r.raised
    THEN [raised |-> TRUE, mgr |-> mgr, insts |-> insts, inst |-> None]
    ELSE [raised |-> FALSE, mgr |-> Len(insts) + 1,
          insts |-> Append(insts, r.adapter), inst |-> Len(insts) + 1]

\* get_bluetooth_manager: construct when the global is None, else reuse it.
\* When __init__ raises the assignment to _manager does not happen.
get_bluetooth_manager(mgr, insts, env) ==
  IF mgr = None
    THEN LET r == BluetoothManager_init(env) IN
         IF r.raised
           THEN [raised |-> TRUE, mgr |-> mgr, insts |-> insts, inst |-> None]
           ELSE [raised |-> FALSE, mgr |-> Len(insts) + 1,
                 insts |-> Append(insts, r.adapter), inst |-> Len(insts) + 1]
    ELSE [raised |-> FALSE, mgr |-> mgr, insts |-> insts, inst |-> mgr]

\* What D-Bus answers to one synchronous method: the property read, the
\* managed objects (their Name properties, "" when absent) and whether the
\* call raises.
DBusEnv == [dbus : Outcome, powered : BOOLEAN,
            names : {<<>>, <<"kbd">>, <<"", "kbd">>}]

\* The part of the answer the method reads.
DBusEnvFor(op) ==
  CASE op = "get_bluetooth_status" -> {e \in DBusEnv : e.names = <<>>}
    [] op = "get_devices" -> {e \in DBusEnv : e.powered}
    [] OTHER -> {e \in DBusEnv : e.names = <<>> /\ e.powered}

NoResult == "none"

\* Each method returns at once when self.adapter is None; otherwise it makes
\* its D-Bus call inside a try whose handler logs and returns the default.
BluetoothManager_get_bluetooth_status(adapter, env) ==
  IF ~adapter THEN [ret |-> FALSE, dbus |-> 0, raised |-> FALSE]
  ELSE IF env.dbus = "raise" THEN [ret |-> FALSE, dbus |-> 1, raised |-> FALSE]
  ELSE [ret |-> env.powered, dbus |-> 1, raised |-> FALSE]

BluetoothManager_set_bluetooth_power(adapter, env) ==
  IF ~adapter THEN [ret |-> NoResult, dbus |-> 0, raised |-> FALSE]
  ELSE [ret |-> NoResult, dbus |-> 1, raised |-> FALSE]

HasName(n) == n # ""

\* The adapter guard dropped: GetManagedObjects is called whatever the adapter.
BluetoothManager_get_devices_unguarded(adapter, env) ==
  IF env.dbus = "raise" THEN [ret |-> <<>>, dbus |-> 1, raised |-> FALSE]
  ELSE [ret |-> SelectSeq(env.names, HasName), dbus |-> 1, raised |-> FALSE]

BluetoothManager_get_devices(adapter, env) ==
  IF ~adapter THEN [ret |-> <<>>, dbus |-> 0, raised |-> FALSE]
  ELSE IF env.dbus = "raise" THEN [ret |-> <<>>, dbus |-> 1, raised |-> FALSE]
  ELSE [ret |-> SelectSeq(env.names, HasName), dbus |-> 1, raised |-> FALSE]

BluetoothManager_start_discovery(adapter, env) ==
  IF ~adapter THEN [ret |-> NoResult, dbus |-> 0, raised |-> FALSE]
  ELSE [ret |-> NoResult, dbus |-> 1, raised |-> FALSE]

BluetoothManager_stop_discovery(adapter, env) ==
  IF ~adapter THEN [ret |-> NoResult, dbus |-> 0, raised |-> FALSE]
  ELSE [ret |-> NoResult, dbus |-> 1, raised |-> FALSE]

SyncOps == {"get_bluetooth_status", "set_bluetooth_power", "get_devices",
            "start_discovery", "stop_discovery"}

Method(op, adapter, env) ==
  CASE op = "get_bluetooth_status" -> BluetoothManager_get_bluetooth_status(adapter, env)
    [] op = "set_bluetooth_power" -> BluetoothManager_set_bluetooth_power(adapter, env)
    [] op = "get_devices" -> BluetoothManager_get_devices(adapter, env)
    [] op = "start_discovery" -> BluetoothManager_start_discovery(adapter, env)
    [] op = "stop_discovery" -> BluetoothManager_stop_discovery(adapter, env)

NoOp == [op |-> "none", inst |-> None, adapterNone |-> FALSE,
         ret |-> NoResult, dbus |-> 0, raised |-> FALSE]

\* A module-level convenience function: get_bluetooth_manager(logging).op()
Convenience(op) ==
  /\ nOps < MaxCalls
  /\ \E ienv \in InitEnvFor(_manager), env \in DBusEnvFor(op) :
       LET g == get_bluetooth_manager(_manager, instances, ienv) IN
       /\ _manager' = g.mgr
       /\ instances' = g.insts
       /\ nOps' = nOps + 1
       /\ IF g.raised
            THEN /\ lastOp' = [NoOp EXCEPT !.op = op, !.raised = TRUE]
                 /\ UNCHANGED uses
            ELSE LET m == Method(op, g.insts[g.inst], env) IN
                 /\ lastOp' = [op |-> op, inst |-> g.inst,
                               adapterNone |-> ~g.insts[g.inst],
                               ret |-> m.ret, dbus |-> m.dbus, raised |-> m.raised]
                 /\ uses' = uses \cup {g.inst}
  /\ UNCHANGED <<calls, idleQueue, invoked>>

get_bluetooth_status == Convenience("get_bluetooth_status") /\ UNCHANGED notBt
set_bluetooth_power == Convenience("set_bluetooth_power") /\ UNCHANGED notBt
get_devices == Convenience("get_devices") /\ UNCHANGED notBt
start_discovery == Convenience("start_discovery") /\ UNCHANGED notBt
stop_discovery == Convenience("stop_discovery") /\ UNCHANGED notBt

----------------------------------------------------------------------------
(* bluetooth.py: connect_device_async / disconnect_device_async *)

CallIds == 1..MaxCalls

NoCall == [kind |-> "none", pc |-> "none", success |-> FALSE,
           returned |-> FALSE, connected |-> "unread"]

\* Thread(target=run_connect, daemon=True).start(): the worker begins with
\* success = False and nothing done.
StartThread(kind) ==
  [kind |-> kind, pc |-> "interfaces", success |-> FALSE,
   returned |-> FALSE, connected |-> "unread"]

\* The callback run by the calling thread instead of being queued.
GLib_idle_add_direct(c, arg) ==
  /\ invoked' = [invoked EXCEPT ![c] = Append(@, [arg |-> arg, thread |-> "worker"])]
  /\ UNCHANGED idleQueue

\* GLib.idle_add(lambda: callback(arg)): queue an idle source for the main loop.
GLib_idle_add(c, arg) ==
  /\ idleQueue' = Append(idleQueue, [call |-> c, arg |-> arg])
  /\ UNCHANGED invoked

AsyncCall(c, kind) ==
  /\ nOps < MaxCalls
  /\ calls[c].kind = "none"
  /\ \A d \in CallIds : d < c => calls[d].kind # "none"
  /\ nOps' = nOps + 1
  /\ \E ienv \in InitEnvFor(_manager) :
       LET g == get_bluetooth_manager(_manager, instances, ienv) IN
       /\ _manager' = g.mgr
       /\ instances' = g.insts
       /\ IF g.raised
            THEN UNCHANGED <<uses, calls>>
            ELSE /\ uses' = uses \cup {g.inst}
                 /\ calls' = [calls EXCEPT ![c] = StartThread(kind)]
  /\ UNCHANGED <<lastOp, idleQueue, invoked>>

connect_device_async ==
  (\E c \in CallIds : AsyncCall(c, "connect")) /\ UNCHANGED notBt

disconnect_device_async ==
  (\E c \in CallIds : AsyncCall(c, "disconnect")) /\ UNCHANGED notBt

\* except Exception: log, success = False; control then reaches the final
\* GLib.idle_add.
run_except(call) == [call EXCEPT !.success = FALSE, !.pc = "final"]

\* dbus.Interface(self.bus.get_object(...)) twice, either may raise; then the
\* device name: properties.Get(Alias) (connect) or Get(Name), Get(Alias)
\* (disconnect), whose failure only changes the name used in the log and the
\* notification.
run_interfaces(call, out) ==
  IF out = "raise" THEN run_except(call)
  ELSE [call EXCEPT !.pc = "method"]

\* device.Connect() / device.Disconnect(), then time.sleep(1).
run_method(call, out) ==
  IF out = "raise" THEN run_except(call)
  ELSE [call EXCEPT !.returned = TRUE,
                    !.pc = IF call.kind = "connect" THEN "verify" ELSE "notify"]

\* The verification treated as advisory: a false reading is only logged.
run_connect_verify_ignored(call, read) ==
  [call EXCEPT !.connected = read, !.pc = "notify"]

\* "Verify connection status": Connected read false schedules callback(False)
\* and returns; a read that raises is logged and the worker carries on.
run_connect_verify(call, read) ==
  IF read = "false" THEN [call EXCEPT !.connected = read, !.pc = "early"]
  ELSE [call EXCEPT !.connected = read, !.pc = "notify"]

\* get_device_battery (never raises) and notify-send (subprocess.run may
\* raise, e.g. when notify-send is not installed); then success = True.
run_notify(call, out) ==
  IF out = "raise" THEN run_except(call)
  ELSE [call EXCEPT !.success = TRUE, !.pc = "final"]

Running(c, pc) == calls[c].kind # "none" /\ calls[c].pc = pc

WorkerStep(c, new) ==
  /\ calls' = [calls EXCEPT ![c] = new]
  /\ UNCHANGED <<_manager, instances, uses, lastOp, nOps, idleQueue, invoked>>
  /\ UNCHANGED notBt

WorkerInterfaces ==
  \E c \in CallIds, out \in Outcome :
    Running(c, "interfaces") /\ WorkerStep(c, run_interfaces(calls[c], out))

WorkerMethod ==
  \E c \in CallIds, out \in Outcome :
    Running(c, "method") /\ WorkerStep(c, run_method(calls[c], out))

\* The read of Connected; on a false reading the worker runs
\* GLib.idle_add(lambda: callback(False)) and returns.
WorkerVerify ==
  \E c \in CallIds, read \in {"true", "false", "raised"} :
    /\ Running(c, "verify")
    /\ LET new == run_connect_verify(calls[c], read) IN
       IF new.pc = "early"
         THEN /\ GLib_idle_add(c, FALSE)
              /\ calls' = [calls EXCEPT ![c] = [new EXCEPT !.pc = "done"]]
              /\ UNCHANGED <<_manager, instances, uses, lastOp, nOps>>
              /\ UNCHANGED notBt
         ELSE WorkerStep(c, new)

WorkerNotify ==
  \E c \in CallIds, out \in Outcome :
    Running(c, "notify") /\ WorkerStep(c, run_notify(calls[c], out))

\* "Call the callback in the main thread": GLib.idle_add(lambda: callback(success))
WorkerFinal ==
  \E c \in CallIds :
    /\ Running(c, "final")
    /\ GLib_idle_add(c, calls[c].success)
    /\ calls' = [calls EXCEPT ![c].pc = "done"]
    /\ UNCHANGED <<_manager, instances, uses, lastOp, nOps>>
    /\ UNCHANGED notBt

\* The GLib main loop runs the oldest idle source on the main thread. The
\* callback is a Callable[[bool], None]: the lambda returns None and GLib
\* removes the source after this one run.
MainLoopDispatch ==
  /\ idleQueue # <<>>
  /\ invoked' = [invoked EXCEPT ![Head(idleQueue).call] =
                   Append(@, [arg |-> Head(idleQueue).arg, thread |-> "main"])]
  /\ idleQueue' = Tail(idleQueue)
  /\ UNCHANGED <<_manager, instances, uses, lastOp, nOps, calls>>
  /\ UNCHANGED notBt

----------------------------------------------------------------------------
(* wifi.py: connect_network *)

\* Exit of one subprocess.run: status 0, a non-zero status, or an exception
\* raised by subprocess.run itself.
Exit == {"zero", "nonzero", "raise"}

Ssids == {<<"a">>, <<"b">>}

Passwords == {"", "pw"}

\* f"{ssid}-temp"
TempName(ssid) == ssid \o <<"-", "t", "e", "m", "p">>

\* The commands one call runs, with the state of NetworkManager they leave.
NmState(sv, id) ==
  [saved |-> sv, nextId |-> id, cmds |-> <<>>, created |-> {}, cleanup |-> <<>>]

Log(st, cmd, rc) == [st EXCEPT !.cmds = Append(@, [cmd |-> cmd, rc |-> rc])]

\* nmcli connection delete NAME: on status 0 the profiles of that name are gone.
NmDelete(sv, name, rc) ==
  IF rc = "zero" THEN {p \in sv : p.name # name} ELSE sv

\* nmcli connection add con-name NAME ...: on status 0 a new profile is saved.
NmAdd(st, name, rc) ==
  IF rc = "zero"
    THEN [st EXCEPT !.saved = @ \cup {[id |-> st.nextId, name |-> name]},
                    !.nextId = @ + 1,
                    !.created = @ \cup {st.nextId}]
    ELSE st

\* nmcli device wifi connect SSID [--temporary]: on status 0 the network is
\* connected through a new profile named after the SSID; with --temporary the
\* profile is taken not to be written to disk.
NmWifiConnect(st, ssid, temporary, rc) ==
  IF rc = "zero" /\ ~temporary THEN NmAdd(st, ssid, rc) ELSE st

\* The results of the commands of one call, in the order the code looks at them.
ConnectEnv == [del : Exit, add : Exit, up : Exit, fallback : Exit,
               conup : Exit, secrets : BOOLEAN, direct : Exit]

\* Only the commands on the call's path are run.
ConnectEnvFor(password) ==
  IF password # ""
    THEN {e \in ConnectEnv : e.conup = "zero" /\ e.secrets /\ e.direct = "zero"}
    ELSE {e \in ConnectEnv : e.del = "zero" /\ e.add = "zero" /\ e.up = "zero"
                             /\ e.fallback = "zero"}

Returned(st, ret) == [st |-> st, raised |-> FALSE, ret |-> ret]

Raised(st) == [st |-> st, raised |-> TRUE, ret |-> FALSE]

\* _schedule_connection_cleanup: start the delete_later thread.
_schedule_connection_cleanup(st, conn_name) ==
  [st EXCEPT !.cleanup = Append(@, conn_name)]

\* The activation reported as successful whatever nmcli's exit status.
_activate_connection_unchecked(st, conn_name, remember, env) ==
  LET s1 == Log(st, "connection up", env.up) IN
  IF env.up = "raise" THEN Raised(s1)
  ELSE Returned(IF ~remember /\ env.up = "zero"
                  THEN _schedule_connection_cleanup(s1, conn_name) ELSE s1,
                TRUE)

\* _activate_connection: nmcli connection up; the cleanup is scheduled only
\* when the profile is temporary and the activation exited with 0.
_activate_connection(st, conn_name, remember, env) ==
  LET s1 == Log(st, "connection up", env.up) IN
  IF env.up = "raise" THEN Raised(s1)
  ELSE Returned(IF ~remember /\ env.up = "zero"
                  THEN _schedule_connection_cleanup(s1, conn_name) ELSE s1,
                env.up = "zero")

\* _try_fallback_connection: nmcli device wifi connect SSID password PW,
\* with --temporary when remember is false.
_try_fallback_connection(st, ssid, remember, env) ==
  LET s1 == Log(NmWifiConnect(st, ssid, ~remember, env.fallback),
                "device wifi connect", env.fallback) IN
  IF env.fallback = "raise" THEN Raised(s1)
  ELSE Returned(s1, env.fallback = "zero")

\* try: ... except Exception: return False
Caught(r) == IF r.raised THEN Returned(r.st, FALSE) ELSE r

\* _connect_with_password. get_wifi_networks (line 154) has its own handler
\* and changes nothing; the delete of an existing profile named SSID is in a
\* try of its own.
_connect_with_password(st, ssid, remember, env) ==
  LET s1 == Log([st EXCEPT !.saved = NmDelete(@, ssid, env.del)],
                "connection delete", env.del)
      conn_name == IF ~remember THEN TempName(ssid) ELSE ssid
      s2 == Log(NmAdd(s1, conn_name, env.add), "connection add", env.add)
  IN  Caught(IF env.add = "raise" THEN Raised(s2)
             ELSE IF env.add = "zero"
               THEN _activate_connection(s2, conn_name, remember, env)
               ELSE _try_fallback_connection(s2, ssid, remember, env))

\* _try_direct_connection: nmcli device wifi connect SSID [--temporary]
_try_direct_connection(st, ssid, remember, env) ==
  LET s1 == Log(NmWifiConnect(st, ssid, ~remember, env.direct),
                "device wifi connect", env.direct) IN
  IF env.direct = "raise" THEN Raised(s1)
  ELSE Returned(s1, env.direct = "zero")

\* _connect_without_password: nmcli con up SSID; when it fails for another
\* reason than missing secrets, the direct connection is tried.
_connect_without_password(st, ssid, remember, env) ==
  LET s1 == Log(st, "connection up", env.conup) IN
  Caught(IF env.conup = "raise" THEN Raised(s1)
         ELSE IF env.conup = "zero" THEN Returned(s1, TRUE)
         ELSE IF env.secrets THEN Returned(s1, FALSE)
         ELSE _try_direct_connection(s1, ssid, remember, env))

\* connect_network(ssid, logging, password, remember)
connect_network(st, ssid, password, remember, env) ==
  IF password # ""
    THEN _connect_with_password(st, ssid, remember, env)
    ELSE _connect_without_password(st, ssid, remember, env)

NoConnect == [ssid |-> <<>>, password |-> "", remember |-> TRUE,
              ret |-> "none", cmds |-> <<>>, created |-> {}]

ConnectNetwork ==
  /\ nConnects < MaxConnects
  /\ \E ssid \in Ssids, password \in Passwords, remember \in BOOLEAN :
       \E env \in ConnectEnvFor(password) :
         LET r == connect_network(NmState(saved, nextId), ssid, password,
                                  remember, env) IN
         /\ saved' = r.st.saved
         /\ nextId' = r.st.nextId
         /\ cleanups' = cleanups \o r.st.cleanup
         /\ tempCreated' = IF password # "" /\ ~remember
                             THEN tempCreated \cup r.st.created
                             ELSE tempCreated
         /\ lastConnect' = [ssid |-> ssid, password |-> password,
                            remember |-> remember,
                            ret |-> IF r.raised THEN "raised"
                                    ELSE IF r.ret THEN "True" ELSE "False",
                            cmds |-> r.st.cmds, created |-> r.st.created]
  /\ nConnects' = nConnects + 1
  /\ UNCHANGED notWifi

RemoveAt(s, i) == [j \in 1..(Len(s) - 1) |-> IF j < i THEN s[j] ELSE s[j + 1]]

\* delete_later: after time.sleep(2), nmcli connection delete CONN_NAME; an
\* exception is logged.
DeleteLater ==
  /\ \E i \in 1..Len(cleanups), rc \in Exit :
       /\ saved' = NmDelete(saved, cleanups[i], rc)
       /\ cleanups' = RemoveAt(cleanups, i)
  /\ UNCHANGED <<nextId, tempCreated, lastConnect, nConnects>>
  /\ UNCHANGED notWifi

WifiInit ==
  /\ saved = {}
  /\ nextId = 1
  /\ cleanups = <<>>
  /\ tempCreated = {}
  /\ lastConnect = NoConnect
  /\ nConnects = 0

WifiNext == ConnectNetwork \/ DeleteLater

----------------------------------------------------------------------------
(* wifi.py: generate_wifi_qrcode *)

NoFile == <<"<", "n", "o", " ", "f", "i", "l", "e", ">">>

\* temp_dir = Path("/tmp/better-control")
TempDir == <<"/", "t", "m", "p", "/", "b", "e", "t", "t", "e", "r", "-",
             "c", "o", "n", "t", "r", "o", "l">>

QrSsids == {<<"a">>, <<"b">>, <<"a", "/", "b">>}

QrPasswords == {<<>>, <<"p">>, <<"q">>}

QrSecurities == {<<"n", "o", "n", "e">>, <<"N", "o", "n", "e">>,
                 <<"W", "P", "A", "2">>, <<>>}

\* temp_dir / f"{ssid}.png"
QrPath(ssid) == TempDir \o <<"/">> \o ssid \o <<".", "p", "n", "g">>

\* temp_dir / "error.png"
ErrorPath == TempDir \o <<"/", "e", "r", "r", "o", "r", ".", "p", "n", "g">>

QrPaths == {QrPath(ssid) : ssid \in QrSsids} \cup {ErrorPath}

\* f"WIFI:T:{security_type};S:{ssid};P:{password};;"
WifiString(security_type, ssid, password) ==
  Concat(<< <<"W", "I", "F", "I", ":", "T", ":">>, security_type,
            <<";", "S", ":">>, ssid, <<";", "P", ":">>, password,
            <<";", ";">> >>)

\* "WPA" if security.lower() != "none" else "nopass"
SecurityType(security) ==
  IF Lower(security) # <<"n", "o", "n", "e">>
    THEN <<"W", "P", "A">>
    ELSE <<"n", "o", "p", "a", "s", "s">>

\* open(qr_code_path, "wb") fails when the SSID names a directory below
\* temp_dir that does not exist.
OpenFails(ssid) == Contains(<<"/">>, ssid)

\* The QR image written by qr_code_image.save encodes the data given to
\* add_data; an existing file is returned as it is.
generate_wifi_qrcode(fs, ssid, password, security, mkdir) ==
  IF mkdir = "raise" THEN [path |-> ErrorPath, files |-> fs]
  ELSE IF fs[QrPath(ssid)] # NoFile THEN [path |-> QrPath(ssid), files |-> fs]
  ELSE IF OpenFails(ssid) THEN [path |-> ErrorPath, files |-> fs]
  ELSE [path |-> QrPath(ssid),
        files |-> [fs EXCEPT ![QrPath(ssid)] =
                     WifiString(SecurityType(security), ssid, password)]]

NoQr == [ssid |-> <<>>, password |-> <<>>, security |-> <<>>, path |-> <<>>]

GenerateWifiQrcode ==
  /\ \E ssid \in QrSsids, password \in QrPasswords, security \in QrSecurities,
        mkdir \in Outcome :
       LET r == generate_wifi_qrcode(files, ssid, password, security, mkdir) IN
       /\ files' = r.files
       /\ lastQr' = [ssid |-> ssid, password |-> password,
                     security |-> security, path |-> r.path]
  /\ UNCHANGED notQr

QrInit ==
  /\ files = [p \in QrPaths |-> NoFile]
  /\ lastQr = NoQr

QrNext == GenerateWifiQrcode

----------------------------------------------------------------------------
(* wifi.py: get_wifi_networks *)

\* The lines of `nmcli -t -f DEVICE,TYPE device`
DeviceListings ==
  { <<>>,
    << <<"e", ":", "e", "t", "h", "e", "r", "n", "e", "t">> >>,
    << <<"w", ":", "w", "i", "f", "i">> >>,
    << <<"e", ":", "e", "t", "h", "e", "r", "n", "e", "t">>,
       <<"w", ":", "w", "i", "f", "i">> >> }

\* The device listing as subprocess.run gives it; run = "raise" when
\* subprocess.run raises (nmcli missing).
DeviceOutputs ==
  {[run |-> "ok", lines |-> l] : l \in DeviceListings}
    \cup {[run |-> "raise", lines |-> <<>>]}

\* What NetworkManager knows of one network: the values of the four fields.
ScanNetworks ==
  [inuse : {<<"*">>, <<" ">>},
   ssid : {<<>>, <<" ">>, <<"a">>, <<"a", ":", "b">>},
   signal : {<<>>, <<"7", "0">>},
   security : {<<>>, <<"W", "P", "A", "2">>}]

RECURSIVE SeqsUpTo(_, _)
SeqsUpTo(S, n) ==
  IF n = 0 THEN {<<>>}
  ELSE LET shorter == SeqsUpTo(S, n - 1) IN
       shorter \cup {Append(q, x) : q \in shorter, x \in S}

\* nmcli's terse mode escapes ':' and '\' in a value with '\'.
RECURSIVE NmEscape(_)
NmEscape(v) ==
  IF v = <<>> THEN <<>>
  ELSE (IF Head(v) \in {":", "\\"} THEN <<"\\", Head(v)>> ELSE <<Head(v)>>)
       \o NmEscape(Tail(v))

\* One line of `nmcli -t -f IN-USE,SSID,SIGNAL,SECURITY device wifi list`
NmTerseLine(n) ==
  Concat(<<n.inuse, <<":">>, NmEscape(n.ssid), <<":">>, NmEscape(n.signal),
           <<":">>, NmEscape(n.security)>>)

\* stdout: every line ends with a newline.
Stdout(lines) == Concat([i \in 1..Len(lines) |-> lines[i] \o <<NL>>])

IsWifiLine(line) == Contains(<<"w", "i", "f", "i">>, line)

\* The body of the loop over output.split("\n")
ParseNetworkLine(line) ==
  IF Strip(line) = <<>> THEN <<>>
  ELSE LET parts == Split(line, ":") IN
       IF Len(parts) >= 4
         THEN LET in_use == Contains(<<"*">>, parts[1])
                  ssid == parts[2]
                  signal == IF Strip(parts[3]) # <<>> THEN parts[3] ELSE <<"0">>
                  security == IF Strip(parts[4]) # <<>> THEN parts[4]
                              ELSE <<"n", "o", "n", "e">>
              IN  IF ssid # <<>> /\ Strip(ssid) # <<>>
                    THEN << [in_use |-> in_use, ssid |-> Strip(ssid),
                             signal |-> Strip(signal),
                             security |-> Strip(security)] >>
                    ELSE <<>>
         ELSE <<>>

\* get_wifi_networks: [] unless a device line contains "wifi"; then the
\* parsed lines of the wifi listing. Any exception gives [].
get_wifi_networks(devices, nets) ==
  IF devices.run = "raise" THEN <<>>
  ELSE IF SelectSeq(Split(Stdout(devices.lines), NL), IsWifiLine) = <<>> THEN <<>>
  ELSE LET lines == Split(Stdout([i \in 1..Len(nets) |-> NmTerseLine(nets[i])]), NL)
       IN  Concat([i \in 1..Len(lines) |-> ParseNetworkLine(lines[i])])

NoScan == [called |-> FALSE, devices |-> [run |-> "ok", lines |-> <<>>],
           nets |-> <<>>, ret |-> <<>>]

GetWifiNetworks ==
  /\ ~lastScan.called
  /\ \E devices \in DeviceOutputs,
        nets \in SeqsUpTo(ScanNetworks, MaxNets) :
       lastScan' = [called |-> TRUE, devices |-> devices, nets |-> nets,
                    ret |-> get_wifi_networks(devices, nets)]
  /\ UNCHANGED notScan

ScanInit == lastScan = NoScan

ScanNext == GetWifiNetworks

----------------------------------------------------------------------------
(* utils/network.py: get_network_speed *)

\* (1024 * 1024) bits are one Mbps in the code's conversion.
Mebi == 1024 * 1024

\* Byte counters are drawn in steps of Mebi / 8 bytes, for which the code's
\* float division (bytes * 8) / (1024 * 1024) is exact.
CounterStep == Mebi \div 8

Counters == {k * CounterStep : k \in 0..MaxCounter}

\* int(subprocess.getoutput("cat .../rx_bytes")): a number, or a ValueError
\* when cat printed an error message instead.
Readings == {[ok |-> TRUE, v |-> c] : c \in Counters} \cup {[ok |-> FALSE, v |-> 0]}

\* Output of `nmcli -t -f DEVICE,TYPE device | grep wifi`
GrepOutputs == {<<>>, <<"w", ":", "w", "i", "f", "i">>}

HasColon(line) == Contains(<<":">>, line)

\* [line.split(":")[0] for line in interfaces if ":" in line]
WifiInterfaces(out) ==
  LET lines == SelectSeq(Split(out, NL), HasColon) IN
  [i \in 1..Len(lines) |-> Split(lines[i], ":")[1]]

\* (bytes * 8) / (1024 * 1024)
Mbps(bytes) == (bytes * 8) \div Mebi

NoPrev == [set |-> FALSE, rx |-> 0, tx |-> 0]

Zero == <<0, 0>>

\* The pair returned as (download, upload).
get_network_speed_swapped(pv, out, rx, tx) ==
  IF WifiInterfaces(out) = <<>> THEN [ret |-> Zero, prev |-> pv]
  ELSE IF ~rx.ok \/ ~tx.ok THEN [ret |-> Zero, prev |-> pv]
  ELSE IF ~pv.set
    THEN [ret |-> Zero, prev |-> [set |-> TRUE, rx |-> rx.v, tx |-> tx.v]]
  ELSE [ret |-> <<Mbps(rx.v - pv.rx), Mbps(tx.v - pv.tx)>>,
        prev |-> [set |-> TRUE, rx |-> rx.v, tx |-> tx.v]]

\* get_network_speed: returns (tx_speed_mbps, rx_speed_mbps). Any exception
\* (a counter that cannot be read) is caught before the attributes are set.
get_network_speed(pv, out, rx, tx) ==
  IF WifiInterfaces(out) = <<>> THEN [ret |-> Zero, prev |-> pv]
  ELSE IF ~rx.ok \/ ~tx.ok THEN [ret |-> Zero, prev |-> pv]
  ELSE IF ~pv.set
    THEN [ret |-> Zero, prev |-> [set |-> TRUE, rx |-> rx.v, tx |-> tx.v]]
  ELSE [ret |-> <<Mbps(tx.v - pv.tx), Mbps(rx.v - pv.rx)>>,
        prev |-> [set |-> TRUE, rx |-> rx.v, tx |-> tx.v]]

NoSpeed == [kind |-> "none", rx |-> 0, tx |-> 0, before |-> NoPrev,
            prevBefore |-> NoPrev, ret |-> Zero]

\* What kind of call the environment made it: no Wi-Fi interface, a counter
\* that could not be read, the first successful call, or a later one.
CallKind(out, rx, tx, rec) ==
  IF ~Contains(<<":">>, out) THEN "nowifi"
  ELSE IF ~(rx.ok /\ tx.ok) THEN "failed"
  ELSE IF ~rec.set THEN "first"
  ELSE "later"

GetNetworkSpeed ==
  /\ nPolls < MaxPolls
  /\ \E out \in GrepOutputs, rx \in Readings, tx \in Readings :
       LET r == get_network_speed(prev, out, rx, tx)
           kind == CallKind(out, rx, tx, recorded)
       IN  /\ prev' = r.prev
           /\ recorded' = IF kind \in {"first", "later"}
                            THEN [set |-> TRUE, rx |-> rx.v, tx |-> tx.v]
                            ELSE recorded
           /\ lastSpeed' = [kind |-> kind, rx |-> rx.v, tx |-> tx.v,
                            before |-> recorded, prevBefore |-> prev,
                            ret |-> r.ret]
  /\ nPolls' = nPolls + 1
  /\ UNCHANGED notSpeed

SpeedInit ==
  /\ prev = NoPrev
  /\ recorded = NoPrev
  /\ lastSpeed = NoSpeed
  /\ nPolls = 0

SpeedNext == GetNetworkSpeed

----------------------------------------------------------------------------
(* volume.py: get_applications *)

\* Lines of `pactl list sink-inputs`
LineSinkInput1 == 
  <<"S", "i", "n", "k", " ", "I", "n", "p", "u", "t", " ", "#", "1">>

LineSinkInput2 == 
  <<"S", "i", "n", "k", " ", "I", "n", "p", "u", "t", " ", "#", "2">>

LineAppName == 
  <<"\t", "\t", "a", "p", "p", "l", "i", "c", "a", "t", "i", "o", "n",
    ".", "n", "a", "m", "e", " ", "=", " ", "\"", "F", "x", "\"">>

LineMediaName == 
  <<"\t", "\t", "m", "e", "d", "i", "a", ".", "n", "a", "m", "e", " ",
    "=", " ", "\"", "A", " ", "b", "\"">>

LineBinary == 
  <<"\t", "\t", "a", "p", "p", "l", "i", "c", "a", "t", "i", "o", "n",
    ".", "p", "r", "o", "c", "e", "s", "s", ".", "b", "i", "n",
    "a", "r", "y", " ", "=", " ", "\"", "F", "x", "-", "B", "i",
    "n", "\"">>

LineIconName == 
  <<"\t", "\t", "a", "p", "p", "l", "i", "c", "a", "t", "i", "o", "n",
    ".", "i", "c", "o", "n", "_", "n", "a", "m", "e", " ", "=",
    " ", "\"", "f", "x", "\"">>

LineVolume == 
  <<"\t", "V", "o", "l", "u", "m", "e", ":", " ", "f", "r", "o", "n",
    "t", "-", "l", "e", "f", "t", ":", " ", "6", "5", "5", "3",
    "6", " ", "/", " ", "1", "0", "0", "%">>

LineVolumeNoPercent == 
  <<"\t", "V", "o", "l", "u", "m", "e", ":", " ", "(", "i", "n", "v",
    "a", "l", "i", "d", ")">>

LineSink == 
  <<"\t", "S", "i", "n", "k", ":", " ", "1">>

AppLines == {LineSinkInput1, LineSinkInput2, LineAppName, LineMediaName,
             LineBinary, LineIconName, LineVolume, LineVolumeNoPercent,
             LineSink}

\* "\n".join(lines)
RECURSIVE Join(_)
Join(lines) ==
  IF lines = <<>> THEN <<>>
  ELSE IF Len(lines) = 1 THEN Head(lines)
  ELSE Head(lines) \o <<NL>> \o Join(Tail(lines))

\* A dict: a function from its keys.
EmptyDict == <<>>

Put(d, k, v) == [x \in (DOMAIN d) \cup {k} |-> IF x = k THEN v ELSE d[x]]

Has(d, k) == k \in DOMAIN d

\* s.strip('"')
RECURSIVE StripQuotes(_)
StripQuotes(s) ==
  IF s # <<>> /\ Head(s) = "\"" THEN StripQuotes(Tail(s))
  ELSE IF s # <<>> /\ s[Len(s)] = "\"" THEN StripQuotes(SubSeq(s, 1, Len(s) - 1))
  ELSE s

\* line.split("=", 1)[1].strip().strip('"'); without '=' an IndexError
IndexOfEq(line) == CHOOSE i \in 1..Len(line) :
                     line[i] = "=" /\ \A j \in 1..(i - 1) : line[j] # "="

ValueOf(line) ==
  StripQuotes(Strip(SubSeq(line, IndexOfEq(line) + 1, Len(line))))

Digits == {"0", "1", "2", "3", "4", "5", "6", "7", "8", "9"}

DigitValue(c) ==
  CASE c = "0" -> 0 [] c = "1" -> 1 [] c = "2" -> 2 [] c = "3" -> 3
    [] c = "4" -> 4 [] c = "5" -> 5 [] c = "6" -> 6 [] c = "7" -> 7
    [] c = "8" -> 8 [] c = "9" -> 9

\* int(digits)
RECURSIVE ToInt(_)
ToInt(ds) ==
  IF ds = <<>> THEN 0
  ELSE 10 * ToInt(SubSeq(ds, 1, Len(ds) - 1)) + DigitValue(ds[Len(ds)])

\* End of the run of digits that starts at i
RECURSIVE RunEnd(_, _)
RunEnd(s, i) ==
  IF i < Len(s) /\ s[i + 1] \in Digits THEN RunEnd(s, i + 1) ELSE i

\* re.search(r"(\d+)%", line): the leftmost digit from which the run of
\* digits is followed by '%'
PercentStarts(s) ==
  {i \in 1..Len(s) :
     /\ s[i] \in Digits
     /\ RunEnd(s, i) < Len(s)
     /\ s[RunEnd(s, i) + 1] = "%"}

PercentMatches(s) == PercentStarts(s) # {}

PercentValue(s) ==
  LET i == CHOOSE k \in PercentStarts(s) : \A m \in PercentStarts(s) : k <= m
  IN  ToInt(SubSeq(s, i, RunEnd(s, i)))

\* _finalize_app: append the app when it has a name and a volume
_finalize_app(current_app, apps) ==
  IF DOMAIN current_app = {} THEN apps
  ELSE IF Has(current_app, "name") /\ Has(current_app, "volume")
    THEN Append(apps, current_app)
  ELSE apps

RECURSIVE Replace(_, _, _)
Replace(s, from, to) ==
  IF s = <<>> THEN <<>>
  ELSE <<IF Head(s) = from THEN to ELSE Head(s)>> \o Replace(Tail(s), from, to)

\* _ensure_app_icons, for one app
EnsureIcon(app) ==
  LET a1 == IF ~Has(app, "icon") /\ Has(app, "binary")
              THEN Put(app, "icon", Lower(app["binary"])) ELSE app
  IN  IF ~Has(a1, "icon") /\ Has(a1, "name")
        THEN Put(a1, "icon", Replace(Lower(a1["name"]), " ", "-")) ELSE a1

_ensure_app_icons(apps) == [i \in 1..Len(apps) |-> EnsureIcon(apps[i])]

\* One turn of the loop over output.split("\n"): the if/elif chain.
ParseAppLine(st, raw) ==
  LET line == Strip(raw)
      cur == st.current_app
  IN  IF StartsWith(<<"S", "i", "n", "k", " ", "I", "n", "p", "u", "t", " ", "#">>, line)
        THEN [st EXCEPT !.apps = _finalize_app(cur, st.apps),
                        !.current_app =
                          Put(EmptyDict, "id", Strip(Split(line, "#")[2]))]
      ELSE IF Contains(<<"a", "p", "p", "l", "i", "c", "a", "t", "i", "o", "n", ".", "n", "a", "m", "e">>, line)
        THEN IF ~Contains(<<"=">>, line) THEN [st EXCEPT !.raised = TRUE]
             ELSE [st EXCEPT !.current_app = Put(cur, "name", ValueOf(line))]
      ELSE IF Contains(<<"m", "e", "d", "i", "a", ".", "n", "a", "m", "e">>, line) /\ ~Has(cur, "name")
        THEN IF ~Contains(<<"=">>, line) THEN [st EXCEPT !.raised = TRUE]
             ELSE [st EXCEPT !.current_app = Put(cur, "name", ValueOf(line))]
      ELSE IF Contains(<<"a", "p", "p", "l", "i", "c", "a", "t", "i", "o", "n", ".", "p", "r", "o", "c", "e", "s", "s", ".", "b", "i", "n", "a", "r", "y">>, line)
        THEN IF ~Contains(<<"=">>, line) THEN [st EXCEPT !.raised = TRUE]
             ELSE LET withBinary == Put(cur, "binary", ValueOf(line)) IN
                  [st EXCEPT !.current_app =
                     IF Lower(ValueOf(line)) # <<>>
                       THEN Put(withBinary, "icon", Lower(ValueOf(line)))
                       ELSE withBinary]
      ELSE IF Contains(<<"a", "p", "p", "l", "i", "c", "a", "t", "i", "o", "n", ".", "i", "c", "o", "n", "_", "n", "a", "m", "e">>, line)
        THEN IF ~Contains(<<"=">>, line) THEN [st EXCEPT !.raised = TRUE]
             ELSE [st EXCEPT !.current_app = Put(cur, "icon", ValueOf(line))]
      ELSE IF Contains(<<"V", "o", "l", "u", "m", "e", ":">>, line)
        THEN IF PercentMatches(line)
               THEN [st EXCEPT !.current_app = Put(cur, "volume", PercentValue(line))]
               ELSE st
      ELSE IF Contains(<<"S", "i", "n", "k", ":">>, line)
        THEN [st EXCEPT !.current_app = Put(cur, "sink", Strip(Split(line, ":")[2]))]
      ELSE st

RECURSIVE ParseAppLines(_, _)
ParseAppLines(st, lines) ==
  IF lines = <<>> \/ st.raised THEN st
  ELSE ParseAppLines(ParseAppLine(st, Head(lines)), Tail(lines))

\* get_applications: parse, finalize the last app, fill in the icons. An
\* exception of the loop is not caught.
get_applications(output) ==
  LET st == ParseAppLines([current_app |-> EmptyDict, apps |-> <<>>,
                           raised |-> FALSE], Split(output, NL))
  IN  IF st.raised THEN [raised |-> TRUE, apps |-> <<>>]
      ELSE [raised |-> FALSE,
            apps |-> _ensure_app_icons(_finalize_app(st.current_app, st.apps))]

NoApps == [called |-> FALSE, output |-> <<>>, raised |-> FALSE, apps |-> <<>>]

GetApplications ==
  /\ ~lastApps.called
  /\ \E lines \in SeqsUpTo(AppLines, MaxLines) :
       LET r == get_applications(Join(lines)) IN
       lastApps' = [called |-> TRUE, output |-> Join(lines),
                    raised |-> r.raised, apps |-> r.apps]
  /\ UNCHANGED notApps

AppsInit == lastApps = NoApps

AppsNext == GetApplications

----------------------------------------------------------------------------
(* ui/main_window.py: BetterControl, the notebook and its tabs *)

\* The tab names of tab_classes the model follows, and their place in the
\* elif chain of the command-line flags.
Tabs == {"Volume", "Wi-Fi", "Bluetooth"}

FlagChain == <<"Volume", "Wi-Fi", "Bluetooth">>

\* The saved tab orders: every tab once.
TabOrders == {o \in [1..Cardinality(Tabs) -> Tabs] :
                \A i, j \in 1..Cardinality(Tabs) : o[i] = o[j] => i = j}

\* The saved visibility dict: False for the tabs hidden earlier, no entry
\* for the others.
Visibilities ==
  {IF H = {} THEN <<>> ELSE [t \in H |-> FALSE] : H \in SUBSET Tabs}

NoTab == "none"

\* dict.get(k, default)
Get(d, k, default) == IF k \in DOMAIN d THEN d[k] ELSE default

\* del d[k]
Del(d, k) ==
  IF (DOMAIN d) \ {k} = {} THEN <<>> ELSE [x \in (DOMAIN d) \ {k} |-> d[x]]

InSeq(x, s) == \E i \in 1..Len(s) : s[i] = x

\* list.index(x), zero-based
IndexIn(x, s) == (CHOOSE i \in 1..Len(s) : s[i] = x /\ \A j \in 1..(i - 1) : s[j] # x) - 1

\* self.tabs is a dict in insertion order: a sequence of [name, widget],
\* widget being "placeholder" (the Gtk.Box of start-up) or "instance".
InTabs(ts, name) == \E i \in 1..Len(ts) : ts[i].name = name

WidgetOf(ts, name) == (CHOOSE i \in 1..Len(ts) : ts[i].name = name)

\* self.tabs[name] = widget
SetTab(ts, name, widget) ==
  IF InTabs(ts, name)
    THEN [i \in 1..Len(ts) |->
            IF ts[i].name = name THEN [name |-> name, widget |-> widget]
            ELSE ts[i]]
    ELSE Append(ts, [name |-> name, widget |-> widget])

\* self.tabs.get(name): None, or the widget stored for the tab
NoWidget == "None"

TabsGet(ts, name) ==
  IF InTabs(ts, name) THEN ts[WidgetOf(ts, name)].widget ELSE NoWidget

\* bool(widget): a Gtk.Box, empty or not, is true (Gtk.Container.__bool__);
\* only None is false.
Truthy(widget) == widget # NoWidget

\* The loop over range(get_n_pages()) with get_nth_page(i) == tab: the
\* page number of the tab's widget, -1 when it has no page. The nb is
\* the sequence of the tab names whose widget is a page.
PageOf(nb, name) == IF InSeq(name, nb) THEN IndexIn(name, nb) ELSE -1

\* Gtk.Notebook.append_page: the new page is the last one; the first page of
\* an empty notebook becomes the current page.
append_page(w, name) ==
  [w EXCEPT !.notebook = Append(w.notebook, name),
            !.current = IF w.current = NoTab THEN name ELSE w.current]

RemoveIndex(s, i) == [k \in 1..(Len(s) - 1) |-> IF k < i THEN s[k] ELSE s[k + 1]]

\* Variant: the page stays in the notebook.
remove_page_kept(w, page_num, pick) == w

\* Gtk.Notebook.remove_page(page_num); removing the current page makes a
\* neighbour current: pick says which side GTK tries first.
remove_page(w, page_num, pick) ==
  LET i == page_num + 1
      rest == RemoveIndex(w.notebook, i)
      before == IF i > 1 THEN w.notebook[i - 1] ELSE NoTab
      after == IF i < Len(w.notebook) THEN w.notebook[i + 1] ELSE NoTab
      neighbour == IF pick = "prev"
                     THEN (IF before # NoTab THEN before ELSE after)
                     ELSE (IF after # NoTab THEN after ELSE before)
  IN  [w EXCEPT !.notebook = rest,
                !.current = IF w.current = w.notebook[i] THEN neighbour
                            ELSE w.current]

InsertAt(s, pos, x) ==
  [k \in 1..(Len(s) + 1) |->
     IF k <= pos THEN s[k] ELSE IF k = pos + 1 THEN x ELSE s[k - 1]]

\* Variant: the child stays where append_page put it.
reorder_child_stay(nb, name, position) == nb

\* Gtk.Notebook.reorder_child(child, position)
reorder_child(nb, name, position) ==
  InsertAt(RemoveIndex(nb, IndexIn(name, nb) + 1), position, name)

\* The window before create_lazy_tabs ran.
NoSettings == [tab_order |-> <<>>, visibility |-> <<>>]

NewWindow == [tabs |-> <<>>, tab_pages |-> <<>>, notebook |-> <<>>,
              current |-> NoTab, settings |-> NoSettings, saved |-> NoSettings]

Ctor == {"ok", "raise"}

\* create_lazy_tabs: the requested tab, from the flags' elif chain, else the
\* first entry of the tab order.
RequestedTab(tab_order, flags) ==
  IF \E k \in 1..Len(FlagChain) : FlagChain[k] \in flags
    THEN FlagChain[CHOOSE k \in 1..Len(FlagChain) :
                     /\ FlagChain[k] \in flags
                     /\ \A j \in 1..(k - 1) : FlagChain[j] \notin flags]
  ELSE IF tab_order # <<>> THEN tab_order[1]
  ELSE "Volume"

\* create_lazy_tabs: one turn of the loop over tab_order
CreateOne(w, tab_name, requested_tab, ctor) ==
  IF ~Get(w.settings.visibility, tab_name, TRUE) THEN w
  ELSE IF tab_name = requested_tab
    THEN IF ctor = "raise" THEN w
         ELSE LET page_num == Len(w.notebook)
                  a == append_page(w, tab_name)
              IN  [a EXCEPT !.tabs = SetTab(w.tabs, tab_name, "instance"),
                            !.tab_pages = Put(w.tab_pages, tab_name, page_num),
                            !.current = a.notebook[page_num + 1]]
  ELSE LET page_num == Len(w.notebook)
           a == append_page(w, tab_name)
       IN  [a EXCEPT !.tabs = SetTab(w.tabs, tab_name, "placeholder"),
                     !.tab_pages = Put(w.tab_pages, tab_name, page_num)]

RECURSIVE CreateFrom(_, _, _, _)
CreateFrom(w, idx, requested_tab, ctor) ==
  IF idx > Len(w.settings.tab_order) THEN w
  ELSE CreateFrom(CreateOne(w, w.settings.tab_order[idx], requested_tab, ctor),
                  idx + 1, requested_tab, ctor)

create_lazy_tabs(loaded, flags, ctor) ==
  CreateFrom([NewWindow EXCEPT !.settings = loaded, !.saved = loaded], 1,
             RequestedTab(loaded.tab_order, flags), ctor)

\* lazy_load_tab, the switch-page handler: TRUE iff it schedules
\* replace_placeholder for the tab at page_num.
lazy_load_tab(w, page_num) ==
  LET names == {name \in DOMAIN w.tab_pages : w.tab_pages[name] = page_num}
  IN  IF names = {} THEN FALSE
      ELSE LET tab_name == CHOOSE name \in names : TRUE
           IN  ~Truthy(TabsGet(w.tabs, tab_name))

\* Variant: the page numbers after a removed page are left as they were.
ShiftDown_none(pages, page_num) == pages

\* After remove_page(page_num): the page numbers above it go down by one.
ShiftDown(pages, page_num) ==
  [name \in DOMAIN pages |->
     IF pages[name] > page_num THEN pages[name] - 1 ELSE pages[name]]

\* apply_tab_visibility_with_order: one turn of the loop over self.tabs
ApplyVisibilityOne(w, tab_name, newly_unhidden_tab, pick) ==
  LET visibility == w.settings.visibility
      tab_order == w.settings.tab_order
      should_show == Get(visibility, tab_name, TRUE)
      page_num == PageOf(w.notebook, tab_name)
  IN  IF should_show /\ page_num = -1
        THEN LET appended == Len(w.notebook)
                 a == [append_page(w, tab_name) EXCEPT
                         !.tab_pages = Put(w.tab_pages, tab_name, appended)]
                 target_pos == IndexIn(tab_name, tab_order)
                 visible_count ==
                   Cardinality({k \in 1..target_pos :
                                  /\ InTabs(w.tabs, tab_order[k])
                                  /\ Get(visibility, tab_order[k], TRUE)})
             IN  IF /\ tab_name = newly_unhidden_tab
                    /\ InSeq(tab_name, tab_order)
                    /\ appended # visible_count
                   THEN [a EXCEPT
                           !.notebook = reorder_child(a.notebook, tab_name,
                                                      visible_count),
                           !.tab_pages =
                             [name \in DOMAIN a.tab_pages |->
                                IF name = tab_name THEN visible_count
                                ELSE IF /\ a.tab_pages[name] >= visible_count
                                        /\ a.tab_pages[name] < appended
                                  THEN a.tab_pages[name] + 1
                                ELSE a.tab_pages[name]]]
                   ELSE a
      ELSE IF ~should_show /\ page_num # -1
        THEN LET r == remove_page(w, page_num, pick)
             IN  [r EXCEPT !.tab_pages =
                             Del(ShiftDown(w.tab_pages, page_num), tab_name)]
      ELSE w

RECURSIVE ApplyVisibilityFrom(_, _, _, _)
ApplyVisibilityFrom(w, i, newly_unhidden_tab, pick) ==
  IF i > Len(w.tabs) THEN w
  ELSE ApplyVisibilityFrom(
         ApplyVisibilityOne(w, w.tabs[i].name, newly_unhidden_tab, pick),
         i + 1, newly_unhidden_tab, pick)

apply_tab_visibility_with_order(w, newly_unhidden_tab, pick) ==
  ApplyVisibilityFrom(w, 1, newly_unhidden_tab, pick)

\* unhide_tab: create the tab when self.tabs lacks it (a failing constructor
\* ends the call), record and save the visibility, add the page, select it.
unhide_tab(w, tab_name, ctor, pick) ==
  IF ~InTabs(w.tabs, tab_name) /\ ctor = "raise" THEN w
  ELSE LET created == IF InTabs(w.tabs, tab_name) THEN w.tabs
                      ELSE SetTab(w.tabs, tab_name, "instance")
           updated == [w.settings EXCEPT
                          !.visibility = Put(@, tab_name, TRUE)]
           applied == apply_tab_visibility_with_order(
                        [w EXCEPT !.tabs = created, !.settings = updated,
                                  !.saved = updated],
                        tab_name, pick)
       IN  IF tab_name \in DOMAIN applied.tab_pages
             THEN [applied EXCEPT
                     !.current = applied.notebook[applied.tab_pages[tab_name] + 1]]
             ELSE applied

\* on_tab_visibility_changed
on_tab_visibility_changed(w, tab_name, visible, ctor, pick) ==
  IF visible THEN unhide_tab(w, tab_name, ctor, pick)
  ELSE LET updated == [w.settings EXCEPT
                          !.visibility = Put(@, tab_name, FALSE)]
           s == [w EXCEPT !.settings = updated, !.saved = updated]
           page_num == PageOf(w.notebook, tab_name)
       IN  IF InTabs(w.tabs, tab_name) /\ page_num # -1
             THEN LET r == remove_page(s, page_num, pick)
                  IN  [r EXCEPT !.tab_pages =
                                  Del(ShiftDown(w.tab_pages, page_num), tab_name)]
             ELSE s

\* apply_tab_order: the ts of self.tabs missing from tab_order are
\* appended to it
RECURSIVE WithMissing(_, _, _)
WithMissing(tab_order, ts, i) ==
  IF i > Len(ts) THEN tab_order
  ELSE WithMissing(IF InSeq(ts[i].name, tab_order) THEN tab_order
                   ELSE Append(tab_order, ts[i].name),
                   ts, i + 1)

\* apply_tab_order: re-add, in tab_order, the tabs whose page was removed
RECURSIVE ReAddFrom(_, _, _)
ReAddFrom(w, i, tab_widgets) ==
  IF i > Len(w.settings.tab_order) THEN w
  ELSE LET tab_name == w.settings.tab_order[i]
       IN  ReAddFrom(
             IF InTabs(w.tabs, tab_name) /\ tab_name \in tab_widgets
               THEN [append_page(w, tab_name) EXCEPT
                       !.tab_pages = Put(w.tab_pages, tab_name, Len(w.notebook))]
               ELSE w,
             i + 1, tab_widgets)

IsOtherPage(ts, name) == ~InTabs(ts, name)

apply_tab_order(w) ==
  LET tab_order == WithMissing(w.settings.tab_order, w.tabs, 1)
      tab_widgets == {w.notebook[i] : i \in {k \in 1..Len(w.notebook) :
                                               InTabs(w.tabs, w.notebook[k])}}
      others == SelectSeq(w.notebook, LAMBDA name : IsOtherPage(w.tabs, name))
      cleared == [w EXCEPT
                    !.settings.tab_order = tab_order,
                    !.tab_pages = <<>>,
                    !.notebook = others,
                    !.current = IF InSeq(w.current, others) THEN w.current
                                ELSE IF others # <<>> THEN others[1]
                                ELSE NoTab]
  IN  ReAddFrom(cleared, 1, tab_widgets)

\* on_tab_order_changed
on_tab_order_changed(w, tab_order) ==
  LET updated == [w.settings EXCEPT !.tab_order = tab_order]
  IN  apply_tab_order([w EXCEPT !.settings = updated, !.saved = updated])

\* The window as one record, and its assignment to the variables.
Window == [tabs |-> tabs, tab_pages |-> tab_pages, notebook |-> notebook,
           current |-> current_page, settings |-> settings,
           saved |-> savedSettings]

SetWindow(w) ==
  /\ tabs' = w.tabs
  /\ tab_pages' = w.tab_pages
  /\ notebook' = w.notebook
  /\ current_page' = w.current
  /\ settings' = w.settings
  /\ savedSettings' = w.saved

NoWinOp == [op |-> "none", tab |-> NoTab, visible |-> FALSE, failed |-> FALSE,
            placeholder |-> FALSE, scheduled |-> FALSE]

\* __init__: the settings are loaded, then create_lazy_tabs runs.
CreateLazyTabs ==
  /\ ~started
  /\ \E tab_order \in TabOrders, visibility \in Visibilities,
        flags \in SUBSET Tabs, ctor \in Ctor :
       /\ SetWindow(create_lazy_tabs(
            [tab_order |-> tab_order, visibility |-> visibility], flags, ctor))
       /\ lastWin' = [NoWinOp EXCEPT
                        !.op = "start",
                        !.tab = RequestedTab(tab_order, flags),
                        !.failed = (ctor = "raise")]
  /\ started' = TRUE
  /\ UNCHANGED nWinOps
  /\ UNCHANGED notWin

\* The settings dialog emits tab-visibility-changed.
TabVisibilityChanged ==
  /\ started
  /\ nWinOps < MaxWinOps
  /\ \E tab_name \in Tabs, visible \in BOOLEAN, ctor \in Ctor,
        pick \in {"prev", "next"} :
       /\ SetWindow(on_tab_visibility_changed(Window, tab_name, visible,
                                              ctor, pick))
       /\ lastWin' = [NoWinOp EXCEPT
                        !.op = "visibility",
                        !.tab = tab_name,
                        !.visible = visible,
                        !.failed = /\ visible
                                   /\ ~InTabs(tabs, tab_name)
                                   /\ ctor = "raise"]
  /\ nWinOps' = nWinOps + 1
  /\ UNCHANGED started
  /\ UNCHANGED notWin

\* The settings dialog emits tab-order-changed.
TabOrderChanged ==
  /\ started
  /\ nWinOps < MaxWinOps
  /\ \E tab_order \in TabOrders :
       /\ SetWindow(on_tab_order_changed(Window, tab_order))
       /\ lastWin' = [NoWinOp EXCEPT !.op = "order"]
  /\ nWinOps' = nWinOps + 1
  /\ UNCHANGED started
  /\ UNCHANGED notWin

\* The user selects another page: the notebook switches to it and emits
\* switch-page, which lazy_load_tab handles.
SwitchPage ==
  /\ started
  /\ nWinOps < MaxWinOps
  /\ \E page_num \in 0..(Len(notebook) - 1) :
       /\ notebook[page_num + 1] # current_page
       /\ current_page' = notebook[page_num + 1]
       /\ lastWin' = [NoWinOp EXCEPT
                        !.op = "switch",
                        !.tab = notebook[page_num + 1],
                        !.placeholder =
                          (TabsGet(tabs, notebook[page_num + 1]) = "placeholder"),
                        !.scheduled = lazy_load_tab(Window, page_num)]
  /\ nWinOps' = nWinOps + 1
  /\ UNCHANGED <<tabs, tab_pages, notebook, settings, savedSettings, started>>
  /\ UNCHANGED notWin

WinInit ==
  /\ tabs = NewWindow.tabs
  /\ tab_pages = NewWindow.tab_pages
  /\ notebook = NewWindow.notebook
  /\ current_page = NewWindow.current
  /\ settings = NewWindow.settings
  /\ savedSettings = NewWindow.saved
  /\ started = FALSE
  /\ lastWin = NoWinOp
  /\ nWinOps = 0

WinNext ==
  \/ CreateLazyTabs
  \/ TabVisibilityChanged
  \/ TabOrderChanged
  \/ SwitchPage

----------------------------------------------------------------------------
(* ui/tabs/display_tab.py: DisplayTab.on_rotation_clicked *)

OrNormal == <<"n", "o", "r", "m", "a", "l">>

OrRight == <<"r", "i", "g", "h", "t">>

OrInverted == <<"i", "n", "v", "e", "r", "t", "e", "d">>

OrLeft == <<"l", "e", "f", "t">>

\* What a display's orientation can be.
Orientations == {OrNormal, OrRight, OrInverted, OrLeft}

RotateCw == <<"r", "o", "t", "a", "t", "e", "-", "c", "w">>

RotateCcw == <<"r", "o", "t", "a", "t", "e", "-", "c", "c", "w">>

\* The rotation arguments of the buttons that create_rotation_controls connects.
Rotations == {OrNormal, RotateCw, RotateCcw}

Sessions == {"Hyprland", "X11"}

NoDisplay == "None"

Displays == {NoDisplay, "eDP-1"}

Clockwise(o) ==
  IF o = OrNormal THEN OrRight
  ELSE IF o = OrRight THEN OrInverted
  ELSE IF o = OrInverted THEN OrLeft
  ELSE OrNormal

\* The orientation a successful rotate command leaves the display in.
Rotated(o, rotation) ==
  IF rotation = RotateCw THEN Clockwise(o)
  ELSE IF rotation = RotateCcw THEN Clockwise(Clockwise(Clockwise(o)))
  ELSE rotation

\* get_hyprland_rotation(), or self.get_current_orientation(): the latter
\* answers "normal" when get_display_info fails; the former can raise.
QueryOutcome == {"ok", "fail"}

CurrentOrientation(sess, o, query) ==
  IF sess = "Hyprland"
    THEN [raised |-> query = "fail", value |-> o]
    ELSE [raised |-> FALSE, value |-> IF query = "ok" THEN Lower(o) ELSE OrNormal]

RotationEnv == [query : QueryOutcome, success : BOOLEAN,
                response : {"OK", "CANCEL"}, revert : BOOLEAN]

NoDialog == [opened |-> FALSE, previous |-> <<>>]

\* Variant: the dialog is opened whether or not the rotate command succeeded.
on_rotation_clicked_unchecked(d, rotation, env) ==
  LET q == CurrentOrientation(d.session, d.orientation, env.query)
      turned == IF env.success THEN Rotated(d.orientation, rotation)
                ELSE d.orientation
  IN  IF d.current_display = NoDisplay \/ q.raised
           \/ Lower(rotation) = Lower(q.value)
        THEN [d EXCEPT !.dialog = NoDialog, !.rotate = FALSE]
      ELSE [d EXCEPT
              !.previous_orientation =
                IF env.response = "OK" THEN rotation ELSE q.value,
              !.orientation =
                IF env.response # "OK" /\ env.revert THEN q.value ELSE turned,
              !.dialog = [opened |-> TRUE, previous |-> q.value],
              !.rotate = TRUE]

\* on_rotation_clicked. d holds the tab's fields and the display's real
\* orientation; the result also says whether the rotate command ran and
\* what the confirmation dialog was given. A dialog that is not answered OK
\* may put the display back to the orientation it was given.
on_rotation_clicked(d, rotation, env) ==
  LET q == CurrentOrientation(d.session, d.orientation, env.query)
  IN  IF d.current_display = NoDisplay \/ q.raised
           \/ Lower(rotation) = Lower(q.value)
        THEN [d EXCEPT !.dialog = NoDialog, !.rotate = FALSE]
      ELSE IF ~env.success
        THEN [d EXCEPT !.previous_orientation = q.value,
                       !.dialog = NoDialog, !.rotate = TRUE]
      ELSE [d EXCEPT
              !.previous_orientation =
                IF env.response = "OK" THEN rotation ELSE q.value,
              !.orientation =
                IF env.response # "OK" /\ env.revert THEN q.value
                ELSE Rotated(d.orientation, rotation),
              !.dialog = [opened |-> TRUE, previous |-> q.value],
              !.rotate = TRUE]

NoRot == [called |-> FALSE, display |-> NoDisplay, rotation |-> <<>>,
          before |-> <<>>, prevBefore |-> <<>>, query |-> "ok",
          success |-> FALSE, response |-> "CANCEL", rotate |-> FALSE,
          dialog |-> NoDialog]

\* DisplayTab.__init__: the session, the first display if there is one,
\* previous_orientation = "normal".
DisplayTab_init ==
  /\ session = "none"
  /\ \E sess \in Sessions, display \in Displays, o \in Orientations :
       /\ session' = sess
       /\ current_display' = display
       /\ orientation' = o
  /\ previous_orientation' = OrNormal
  /\ UNCHANGED lastRot
  /\ UNCHANGED notRot

\* on_display_changed: the combo's active text, None when nothing is active
on_display_changed ==
  /\ session # "none"
  /\ \E display \in Displays :
       /\ display # current_display
       /\ current_display' = display
  /\ UNCHANGED <<session, previous_orientation, orientation, lastRot>>
  /\ UNCHANGED notRot

RotationClicked ==
  /\ session # "none"
  /\ \E rotation \in Rotations, env \in RotationEnv :
       LET r == on_rotation_clicked(
                  [session |-> session, current_display |-> current_display,
                   previous_orientation |-> previous_orientation,
                   orientation |-> orientation, dialog |-> NoDialog,
                   rotate |-> FALSE],
                  rotation, env)
       IN  /\ previous_orientation' = r.previous_orientation
           /\ orientation' = r.orientation
           /\ lastRot' = [called |-> TRUE, display |-> current_display,
                          rotation |-> rotation, before |-> orientation,
                          prevBefore |-> previous_orientation,
                          query |-> env.query, success |-> env.success,
                          response |-> env.response, rotate |-> r.rotate,
                          dialog |-> r.dialog]
  /\ UNCHANGED <<session, current_display>>
  /\ UNCHANGED notRot

RotInit ==
  /\ session = "none"
  /\ current_display = NoDisplay
  /\ previous_orientation = OrNormal
  /\ orientation = OrNormal
  /\ lastRot = NoRot

RotNext ==
  \/ DisplayTab_init
  \/ on_display_changed
  \/ RotationClicked

----------------------------------------------------------------------------
(* Specifications *)

BtInit ==
  /\ _manager = None
  /\ instances = <<>>
  /\ uses = {}
  /\ lastOp = NoOp
  /\ nOps = 0
  /\ calls = [c \in CallIds |-> NoCall]
  /\ idleQueue = <<>>
  /\ invoked = [c \in CallIds |-> <<>>]

Init == BtInit /\ WifiInit /\ QrInit /\ ScanInit /\ SpeedInit /\ AppsInit
        /\ WinInit /\ RotInit

Next ==
  \/ get_bluetooth_status
  \/ set_bluetooth_power
  \/ get_devices
  \/ start_discovery
  \/ stop_discovery
  \/ connect_device_async
  \/ disconnect_device_async
  \/ WorkerInterfaces
  \/ WorkerMethod
  \/ WorkerVerify
  \/ WorkerNotify
  \/ WorkerFinal
  \/ MainLoopDispatch

Spec == Init /\ [][Next]_vars

SpecWifi == Init /\ [][WifiNext]_vars

SpecQr == Init /\ [][QrNext]_vars

SpecScan == Init /\ [][ScanNext]_vars

SpecSpeed == Init /\ [][SpeedNext]_vars

SpecApps == Init /\ [][AppsNext]_vars

SpecWin == Init /\ [][WinNext]_vars

SpecRot == Init /\ [][RotNext]_vars

----------------------------------------------------------------------------
(* Claims: Bluetooth *)

\* Number of idle sources of call c still waiting in the main loop.
Pending(c) == Cardinality({i \in 1..Len(idleQueue) : idleQueue[i].call = c})

Delivered(c) == Len(invoked[c]) + Pending(c)

\* C1: for every connect_device_async / disconnect_device_async call the
\* callback is only ever run by the main loop (never by the worker thread),
\* with a boolean, at most once; nothing is scheduled before the worker
\* thread has finished its D-Bus work, and once the worker has finished
\* (success, failed post-connect check, or an exception in any step) exactly
\* one invocation is scheduled or made.
C1_CallbackOnceOnMainLoop ==
  \A c \in CallIds :
    /\ \A i \in 1..Len(invoked[c]) :
         invoked[c][i].thread = "main" /\ invoked[c][i].arg \in BOOLEAN
    /\ Delivered(c) <= 1
    /\ calls[c].pc = "done" => Delivered(c) = 1
    /\ calls[c].pc # "done" => Delivered(c) = 0
    /\ (calls[c].pc = "done" /\ idleQueue = <<>>) => Len(invoked[c]) = 1

\* C1 witness: one call whose post-connect check failed and one call in which
\* a step raised have both had their callback run.
C1_Witness ==
  \E c, d \in CallIds :
    /\ calls[c].kind = "connect" /\ calls[c].connected = "false"
    /\ invoked[c] = <<[arg |-> FALSE, thread |-> "main"]>>
    /\ calls[d].kind = "disconnect" /\ ~calls[d].returned
    /\ invoked[d] = <<[arg |-> FALSE, thread |-> "main"]>>

\* C2 as stated: connect_device_async passes True only if Connect() returned
\* without raising and Connected was read as true afterwards.
C2_TrueOnlyIfReadTrue ==
  \A c \in CallIds :
    calls[c].kind = "connect" =>
      \A i \in 1..Len(invoked[c]) :
        invoked[c][i].arg = TRUE =>
          calls[c].returned /\ calls[c].connected = "true"

\* C2 amended: connect_device_async passes True only if Connect() returned
\* without raising and the read of Connected did not return false (it
\* returned true, or the read itself raised and was only logged); when
\* Connect() raised or Connected was read as false the callback gets False.
C2_TrueOnlyIfNotReadFalse ==
  \A c \in CallIds :
    calls[c].kind = "connect" =>
      \A i \in 1..Len(invoked[c]) :
        /\ invoked[c][i].arg = TRUE =>
             calls[c].returned /\ calls[c].connected \in {"true", "raised"}
        /\ (~calls[c].returned \/ calls[c].connected = "false") =>
             invoked[c][i].arg = FALSE

\* C2 witness: True was delivered although the read of Connected raised.
C2_Witness ==
  \E c \in CallIds :
    /\ calls[c].kind = "connect" /\ calls[c].connected = "raised"
    /\ invoked[c] = <<[arg |-> TRUE, thread |-> "main"]>>

\* C6: across any sequence of module-level calls at most one BluetoothManager
\* is constructed and every call uses the instance held in _manager.
C6_SingleManager ==
  /\ Len(instances) <= 1
  /\ uses \subseteq {_manager}
  /\ lastOp.inst \in {None, _manager}

\* C6 witness: a synchronous and an asynchronous call have both used the one
\* instance.
C6_Witness ==
  /\ lastOp.inst = 1
  /\ calls[1].kind # "none"
  /\ uses = {1}
  /\ nOps >= 2

\* C7: with adapter None, get_bluetooth_status returns False, get_devices
\* returns the empty list, and set_bluetooth_power, start_discovery and
\* stop_discovery make no D-Bus call; none of the five raises.
C7_NoAdapterNoDBus ==
  (lastOp.op \in SyncOps /\ lastOp.adapterNone) =>
    /\ ~lastOp.raised
    /\ lastOp.dbus = 0
    /\ lastOp.op = "get_bluetooth_status" => lastOp.ret = FALSE
    /\ lastOp.op = "get_devices" => lastOp.ret = <<>>

\* C7 witness: get_devices has run on a manager without adapter.
C7_Witness ==
  /\ lastOp.op = "get_devices"
  /\ lastOp.adapterNone
  /\ lastOp.inst = _manager

----------------------------------------------------------------------------
(* Claims: connect_network *)

SavedIds == {p.id : p \in saved}

\* C3: after connect_network with a password and remember=False, once the
\* call and its scheduled cleanup have finished no profile created by that
\* call is still saved, whether the attempt succeeded or failed.
C3_TemporaryProfileRemoved ==
  cleanups = <<>> => tempCreated \cap SavedIds = {}

IsConnectCommand(c) ==
  c.cmd \in {"connection up", "device wifi connect"} /\ c.rc = "zero"

\* C4: connect_network never raises: it returns a boolean, and True only if
\* an nmcli "connection up" or "device wifi connect" command of that call
\* exited with status 0.
C4_BooleanAndTrueOnlyOnExitZero ==
  lastConnect.ret # "none" =>
    /\ lastConnect.ret \in {"True", "False"}
    /\ lastConnect.ret = "True" =>
         \E i \in 1..Len(lastConnect.cmds) : IsConnectCommand(lastConnect.cmds[i])

\* C4 witness: a call with password returned True through the fallback after
\* the profile could not be created.
C4_Witness ==
  /\ lastConnect.ret = "True"
  /\ lastConnect.password # ""
  /\ \E i \in 1..Len(lastConnect.cmds) :
       lastConnect.cmds[i] = [cmd |-> "connection add", rc |-> "nonzero"]

----------------------------------------------------------------------------
(* Claims: generate_wifi_qrcode *)

\* <type> is nopass when security is 'none' (case-insensitive), WPA otherwise.
ClaimedType(security) ==
  IF Lower(security) = <<"n", "o", "n", "e">>
    THEN <<"n", "o", "p", "a", "s", "s">>
    ELSE <<"W", "P", "A">>

\* C5: after any sequence of calls, the image at the path returned by
\* generate_wifi_qrcode(ssid, password, security) encodes exactly
\* WIFI:T:<type>;S:<ssid>;P:<password>;; built from that call's arguments.
\* (Where the returned path holds no image, as after an internal error, the
\* statement says nothing.)
C5_QrEncodesArguments ==
  (lastQr.path # <<>> /\ files[lastQr.path] # NoFile) =>
    files[lastQr.path] =
      WifiString(ClaimedType(lastQr.security), lastQr.ssid, lastQr.password)

----------------------------------------------------------------------------
(* Claims: get_wifi_networks *)

Blank(v) == Strip(v) = <<>>

\* The entry the claim describes for one listed network.
ClaimedEntry(n) ==
  [in_use |-> Contains(<<"*">>, n.inuse),
   ssid |-> n.ssid,
   signal |-> IF Blank(n.signal) THEN <<"0">> ELSE n.signal,
   security |-> IF Blank(n.security) THEN <<"n", "o", "n", "e">> ELSE n.security]

ClaimedNetworks(devices, nets) ==
  IF \A i \in 1..Len(devices.lines) : ~IsWifiLine(devices.lines[i]) THEN <<>>
  ELSE Concat([i \in 1..Len(nets) |->
                 IF Blank(nets[i].ssid) THEN <<>> ELSE <<ClaimedEntry(nets[i])>>])

\* C8: get_wifi_networks returns [] when no device line contains 'wifi';
\* otherwise, in nmcli's order, one entry per listed network with a non-blank
\* SSID, whose ssid, signal and security equal the fields nmcli reported
\* (signal '0' and security 'none' when blank) and whose in_use is true
\* exactly when the IN-USE field contains '*'.
C8_EntriesEqualFields ==
  lastScan.called => lastScan.ret = ClaimedNetworks(lastScan.devices, lastScan.nets)

----------------------------------------------------------------------------
(* Claims: get_network_speed *)

\* C9: the first successful call returns (0.0, 0.0) and records the rx/tx
\* counters; every later successful call returns (upload, download) computed
\* from the difference between the current tx/rx counters and those of the
\* previous successful call, then records the current counters; a call that
\* finds no Wi-Fi interface or fails returns (0.0, 0.0) and leaves the
\* recorded counters unchanged.
C9_SpeedFromPreviousSuccessfulCall ==
  /\ lastSpeed.kind = "first" =>
       /\ lastSpeed.ret = Zero
       /\ prev = [set |-> TRUE, rx |-> lastSpeed.rx, tx |-> lastSpeed.tx]
  /\ lastSpeed.kind = "later" =>
       /\ lastSpeed.ret = <<Mbps(lastSpeed.tx - lastSpeed.before.tx),
                            Mbps(lastSpeed.rx - lastSpeed.before.rx)>>
       /\ prev = [set |-> TRUE, rx |-> lastSpeed.rx, tx |-> lastSpeed.tx]
  /\ lastSpeed.kind \in {"nowifi", "failed"} =>
       /\ lastSpeed.ret = Zero
       /\ prev = lastSpeed.prevBefore
  /\ prev = recorded

\* C9 witness: a later successful call reported an upload speed different
\* from the download speed.
C9_Witness ==
  /\ lastSpeed.kind = "later"
  /\ lastSpeed.ret[1] # lastSpeed.ret[2]
  /\ lastSpeed.ret[1] = Mbps(lastSpeed.tx - lastSpeed.before.tx)
  /\ lastSpeed.ret[1] > 0

----------------------------------------------------------------------------
(* Claims: get_applications *)

\* C10: for every pactl sink-inputs text, each dictionary returned by
\* get_applications has the keys id, name, volume and icon (a sink input
\* without a name or without a volume percentage is not in the result).
C10_AppsHaveAllKeys ==
  (lastApps.called /\ ~lastApps.raised) =>
    \A i \in 1..Len(lastApps.apps) :
      {"id", "name", "volume", "icon"} \subseteq DOMAIN lastApps.apps[i]

----------------------------------------------------------------------------
(* Claims: the main window's tabs *)

HasPage(name) == InSeq(name, notebook)

\* C11: after start-up and any sequence of hide, unhide and reorder
\* operations, tab_pages[name] is the page number of the tab's widget for every
\* tab that has a page, no two tabs share a page number, and a tab without a
\* page has no tab_pages entry.
C11_TabPagesMatchNotebook ==
  started =>
    /\ \A name \in Tabs :
         IF HasPage(name)
           THEN /\ name \in DOMAIN tab_pages
                /\ tab_pages[name] = PageOf(notebook, name)
           ELSE name \notin DOMAIN tab_pages
    /\ \A a, b \in DOMAIN tab_pages : tab_pages[a] = tab_pages[b] => a = b

\* C11 witness: a tab hidden earlier was unhidden and moved in front of the
\* pages that were there, so the other entries had to be renumbered.
C11_Witness ==
  /\ lastWin.op = "visibility"
  /\ lastWin.visible
  /\ ~lastWin.failed
  /\ nWinOps >= 2
  /\ Len(notebook) >= 2
  /\ PageOf(notebook, lastWin.tab) = 0

C13_PlaceholderReplaced ==
  (lastWin.op = "switch" /\ lastWin.placeholder) =>
    \/ lastWin.scheduled
    \/ TabsGet(tabs, lastWin.tab) = "instance"

\* C14 (as stated): after on_tab_visibility_changed(tab, visible) the saved
\* settings record visibility[tab] = visible and the tab has a page exactly
\* when visible is true.
C14_VisibilitySavedAndApplied ==
  lastWin.op = "visibility" =>
    /\ lastWin.tab \in DOMAIN savedSettings.visibility
    /\ savedSettings.visibility[lastWin.tab] = lastWin.visible
    /\ HasPage(lastWin.tab) <=> lastWin.visible

\* C14 (amended): the same, unless the tab was missing from self.tabs and
\* its constructor raised; unhide_tab then returns before it touches the
\* settings or the notebook.
C14_VisibilitySavedUnlessCreationFailed ==
  (lastWin.op = "visibility" /\ ~lastWin.failed) =>
    /\ lastWin.tab \in DOMAIN savedSettings.visibility
    /\ savedSettings.visibility[lastWin.tab] = lastWin.visible
    /\ HasPage(lastWin.tab) <=> lastWin.visible

\* C14 witness: a tab was hidden and lost its page while other pages stayed.
C14_Witness ==
  /\ lastWin.op = "visibility"
  /\ ~lastWin.visible
  /\ InTabs(tabs, lastWin.tab)
  /\ ~HasPage(lastWin.tab)
  /\ Len(notebook) >= 1
  /\ nWinOps = 1

\* C15 (as stated, for a constructor that does not raise): when
\* create_lazy_tabs returns, the requested tab is an instance and the current
\* page, and every other tab with a page is a placeholder.
C15_RequestedTabInstantiated ==
  (lastWin.op = "start" /\ ~lastWin.failed) =>
    /\ TabsGet(tabs, lastWin.tab) = "instance"
    /\ current_page = lastWin.tab
    /\ \A name \in Tabs \ {lastWin.tab} :
         HasPage(name) => TabsGet(tabs, name) = "placeholder"

----------------------------------------------------------------------------
(* Claims: on_rotation_clicked *)

\* What C16 says besides the dialog's argument: the dialog is opened only
\* after the rotate command reported success, previous_orientation becomes the
\* new rotation only when the dialog answered OK, and nothing happens when no
\* display is selected.
RotationBookkeeping ==
  /\ lastRot.dialog.opened => (lastRot.rotate /\ lastRot.success)
  /\ (previous_orientation = lastRot.rotation
        /\ lastRot.prevBefore # lastRot.rotation) =>
       (lastRot.dialog.opened /\ lastRot.response = "OK")
  /\ lastRot.display = NoDisplay =>
       /\ ~lastRot.rotate
       /\ ~lastRot.dialog.opened
       /\ previous_orientation = lastRot.prevBefore
       /\ orientation = lastRot.before

\* C16 (as stated): the above, and the dialog is given the orientation the
\* display had before this rotation.
C16_DialogGetsOrientationBefore ==
  lastRot.called =>
    /\ RotationBookkeeping
    /\ lastRot.dialog.opened => lastRot.dialog.previous = lastRot.before

\* C16 (amended): the above, and the dialog is given the orientation that the
\* query at the start of the call reported: the display's orientation, or
\* "normal" when get_current_orientation could not read it.
C16_DialogGetsQueriedOrientation ==
  lastRot.called =>
    /\ RotationBookkeeping
    /\ lastRot.dialog.opened =>
         lastRot.dialog.previous =
           CurrentOrientation(session, lastRot.before, lastRot.query).value

\* C16 witness: a rotation of a turned display succeeded, the dialog was
\* opened and answered OK, and previous_orientation is the new rotation.
C16_Witness ==
  /\ lastRot.called
  /\ lastRot.dialog.opened
  /\ lastRot.before = OrLeft
  /\ lastRot.dialog.previous = OrLeft
  /\ lastRot.response = "OK"
  /\ previous_orientation = RotateCw
  /\ orientation = OrNormal

====
